---- MODULE Spec2Model ----
(***************************************************************************)
(* A model of the Bloom filter of bloom_filter.py: the constructor with    *)
(* its parameter validation and sizing formulas, the seeded SHA-256 hash   *)
(* family, and the add / contains / get_stats / clear operations on one    *)
(* filter instance.                                                        *)
(*                                                                         *)
(* Numbers.  false_positive_rate is a float in the source; here a rate is  *)
(* an integer number of ten-thousandths (100 stands for 0.01, 15000 for    *)
(* 1.5).  math.log is tabulated in millionths for the rates the model      *)
(* draws, and the two sizing formulas are evaluated in that fixed point;   *)
(* for every (expected_elements, rate) the model draws the results equal   *)
(* the ones CPython computes.  A SHA-256 digest is the list of its sixteen *)
(* 16-bit limbs, most significant first, tabulated for the messages the    *)
(* model can build; int(hexdigest, 16) % size is computed from the limbs.  *)
(***************************************************************************)
EXTENDS Integers, Sequences, FiniteSets, TLC

(* Bounds of the model. *)
\* expected_elements is drawn from -1 .. MaxN
MaxN == 2
\* add is no longer called once element_count has reached MaxAdds
MaxAdds == 3

(* Items: Python values, tagged with their type. *)
IntItem(v) == [type |-> "int", int |-> v, str |-> ""]
StrItem(s) == [type |-> "str", int |-> 0, str |-> s]
NoItem == [type |-> "none", int |-> 0, str |-> ""]
Items == {IntItem(1), IntItem(11), IntItem(123), StrItem("123")}

\* The values the constructor's two arguments are drawn from.
ExpectedValues == (-1) .. MaxN
RateValues == {-100, 0, 1, 100, 1000, 5000, 9000, 10000, 15000, 30000}

VARIABLES
    phase,          \* "new": not constructed; "ok": __init__ returned; "error": __init__ raised
    assigned,       \* the attributes of self that have been assigned
    size,           \* self.size
    hash_count,     \* self.hash_count
    bit_array,      \* self.bit_array, a sequence of booleans (index i of Python is i + 1)
    element_count,  \* self.element_count
    args,           \* history: the arguments __init__ was called with
    added,          \* history: the items whose add returned since construction or the last clear
    adds,           \* history: the number of add calls that returned since then
    outcome         \* history: the last call, its argument and how it ended

vars == <<phase, assigned, size, hash_count, bit_array, element_count, args, added, adds, outcome>>
fields == <<size, hash_count, bit_array, element_count>>

(* ---------------- Parameter sizer ---------------- *)

\* math.log(p) in millionths, p in ten-thousandths with 0 < p <= 1.
log(p) ==
    CASE p = 1 -> -9210340
      [] p = 100 -> -4605170
      [] p = 1000 -> -2302585
      [] p = 5000 -> -693147
      [] p = 9000 -> -105361
      [] p = 10000 -> 0

\* math.log(2) ** 2 in millionths.
Ln2Squared == 480453
\* math.log(2) in millionths.
Ln2 == 693147

\* int(x) of a float x >= 0 given as a quotient of naturals: truncation.
int(num, den) == num \div den

max(a, b) == IF a >= b THEN a ELSE b

\* m = -(n * math.log(p)) / (math.log(2) ** 2); return int(m)
_calculate_size(n, p) == int(-(n * log(p)), Ln2Squared)

\* k = (m / n) * math.log(2); return max(1, int(k))
_calculate_hash_count(m, n) == max(1, int(m * Ln2, n * 1000000))

(* ---------------- Hash family ---------------- *)

Digit(d) == CASE d = 0 -> "0" [] d = 1 -> "1" [] d = 2 -> "2" [] d = 3 -> "3" [] d = 4 -> "4"
              [] d = 5 -> "5" [] d = 6 -> "6" [] d = 7 -> "7" [] d = 8 -> "8" [] d = 9 -> "9"

\* str(n) of an integer n >= 0: its decimal digits.
RECURSIVE str(_)
str(n) == IF n < 10 THEN Digit(n) ELSE str(n \div 10) \o Digit(n % 10)

\* repr(item): the decimal digits of an int, a str between single quotes.
repr(item) == IF item.type = "int" THEN str(item.int) ELSE "'" \o item.str \o "'"

\* item_bytes + str(seed).encode('utf-8'): the message that is hashed.
Message(item, seed) == repr(item) \o str(seed)

\* hashlib.sha256(message): the digest as sixteen 16-bit limbs, most significant first.
sha256(message) ==
    CASE message = "10" -> <<19012, 56341, 13890, 1192, 4072, 3728, 14661, 23745, 24706, 33154, 4066, 45647, 7762, 13229, 59055, 7637>>
      [] message = "11" -> <<20424, 11046, 44747, 18386, 34444, 20219, 58200, 5938, 41959, 52172, 27694, 64306, 1580, 2071, 2565, 61112>>
      [] message = "12" -> <<27473, 54321, 57181, 32532, 7358, 52940, 63390, 57149, 55393, 50100, 1695, 2833, 26138, 16111, 44219, 43288>>
      [] message = "13" -> <<16347, 41823, 1244, 35910, 10630, 51602, 48376, 30036, 25175, 4400, 29353, 2497, 25335, 58480, 58753, 57976>>
      [] message = "14" -> <<34087, 43153, 57892, 4969, 20735, 13002, 8491, 17852, 37878, 40891, 32796, 15134, 48858, 50471, 30201, 40545>>
      [] message = "15" -> <<58921, 64101, 39127, 12918, 36732, 29291, 19298, 4741, 63939, 47187, 912, 2729, 4609, 32183, 24957, 35803>>
      [] message = "16" -> <<45438, 63185, 40058, 23326, 59451, 36988, 22869, 9948, 45547, 1755, 33319, 54864, 54749, 41129, 62670, 36057>>
      [] message = "17" -> <<17699, 21519, 5380, 52503, 4108, 18485, 59483, 32495, 54425, 4440, 3982, 65520, 22938, 36648, 15334, 47587>>
      [] message = "18" -> <<20169, 22943, 49667, 53622, 41729, 21356, 11785, 6681, 48261, 10073, 45653, 48488, 6273, 2626, 50686, 53578>>
      [] message = "19" -> <<37888, 61874, 7349, 10199, 64061, 16043, 47763, 21882, 6379, 59298, 51790, 18204, 65118, 19547, 19623, 63335>>
      [] message = "110" -> <<39899, 10998, 31122, 1186, 39366, 921, 19342, 16398, 19231, 54821, 61403, 29702, 27848, 27134, 58412, 40435>>
      [] message = "111" -> <<63200, 41442, 44097, 37978, 39591, 65418, 35498, 3307, 49450, 15308, 38938, 37530, 54735, 33034, 2318, 4526>>
      [] message = "112" -> <<45397, 28138, 13033, 53453, 49133, 911, 55160, 29301, 30558, 41993, 14785, 18086, 20000, 23499, 13466, 53295>>
      [] message = "113" -> <<27749, 36584, 16311, 59410, 18468, 38131, 58390, 43126, 63039, 16778, 2954, 8030, 30420, 32484, 6000, 13771>>
      [] message = "114" -> <<40735, 40398, 12700, 18176, 61224, 60556, 21437, 15560, 59051, 58956, 26680, 21625, 43913, 8536, 1701, 48598>>
      [] message = "115" -> <<10458, 59336, 48610, 62410, 24719, 34512, 57706, 8525, 61044, 51019, 60929, 7391, 56646, 48132, 46677, 48148>>
      [] message = "116" -> <<58808, 24998, 55465, 26335, 51838, 29505, 52542, 46782, 39169, 26765, 21626, 29419, 60683, 8030, 5363, 53389>>
      [] message = "117" -> <<10952, 30896, 57880, 1558, 39227, 19306, 42782, 24854, 28636, 34498, 36167, 58201, 53486, 21374, 45341, 18131>>
      [] message = "118" -> <<34266, 44911, 28757, 52567, 13864, 32686, 55648, 15729, 10528, 2348, 20367, 53257, 32451, 46672, 48935, 21262>>
      [] message = "119" -> <<12344, 49077, 30142, 59040, 58905, 17903, 63608, 18485, 47916, 29190, 13540, 10036, 26508, 2105, 38071, 61464>>
      [] message = "1110" -> <<1375, 30868, 3079, 25347, 21095, 24983, 43900, 16088, 54715, 8269, 16494, 23663, 61697, 63600, 48283, 32215>>
      [] message = "1111" -> <<4094, 6845, 6664, 8531, 21442, 13270, 57353, 24894, 38382, 50213, 14386, 42849, 44840, 65335, 44122, 5388>>
      [] message = "1112" -> <<65169, 42848, 38973, 16413, 39783, 40880, 37558, 35144, 36127, 18137, 12090, 62953, 59699, 25394, 28478, 35492>>
      [] message = "1113" -> <<47075, 1894, 3606, 4555, 17084, 45710, 19380, 42566, 23755, 24258, 57384, 51787, 59576, 20103, 34706, 39480>>
      [] message = "1230" -> <<8866, 64125, 1060, 35121, 43141, 14967, 5304, 25926, 24842, 64769, 45745, 33816, 37097, 31162, 31654, 48302>>
      [] message = "1231" -> <<21158, 60264, 31954, 11904, 54068, 11948, 28620, 32558, 6432, 40591, 33771, 39810, 59420, 28478, 28464, 29755>>
      [] message = "1232" -> <<46688, 12120, 26892, 42004, 35049, 31954, 33107, 26387, 22132, 31893, 7253, 21531, 27789, 35716, 37867, 28995>>
      [] message = "1233" -> <<18004, 55187, 38700, 15210, 7496, 64266, 46477, 40112, 56902, 50131, 15712, 24466, 8898, 33759, 43538, 54304>>
      [] message = "1234" -> <<940, 26434, 5875, 57692, 30238, 57765, 57941, 61543, 38198, 9160, 45960, 46149, 40467, 63864, 55240, 18164>>
      [] message = "1235" -> <<12556, 60727, 8203, 6669, 44581, 60850, 25598, 21188, 37366, 58471, 9866, 51888, 65516, 1638, 28206, 55641>>
      [] message = "1236" -> <<31496, 14530, 44926, 27423, 16357, 42140, 13021, 17821, 39290, 37660, 60980, 40102, 34463, 15383, 52355, 33684>>
      [] message = "1237" -> <<42991, 40197, 24802, 5193, 18692, 23090, 10888, 47175, 38583, 9830, 34982, 56094, 45265, 41320, 35825, 26960>>
      [] message = "1238" -> <<36321, 17351, 59647, 49829, 3401, 4130, 28227, 8454, 34438, 12916, 51972, 13721, 329, 65004, 45078, 15832>>
      [] message = "1239" -> <<63859, 20496, 7706, 40425, 8893, 47990, 10803, 26962, 13328, 11713, 6655, 44962, 23573, 53313, 36552, 11043>>
      [] message = "12310" -> <<37712, 29535, 64715, 22173, 48629, 20499, 33883, 25521, 55998, 8468, 49334, 21387, 48423, 14620, 43870, 44257>>
      [] message = "12311" -> <<55735, 28275, 63310, 26011, 4530, 28239, 44090, 44861, 40269, 41447, 46547, 62292, 48139, 1025, 28417, 15392>>
      [] message = "12312" -> <<53166, 9768, 35800, 11802, 38758, 39799, 8263, 3315, 38120, 31502, 21437, 55269, 33797, 22533, 52323, 31>>
      [] message = "12313" -> <<9599, 15849, 5274, 53002, 18899, 63334, 35158, 44725, 9360, 8239, 44702, 49897, 11324, 43645, 21027, 50927>>
      [] message = "'123'0" -> <<11518, 32460, 36451, 56245, 38441, 59611, 2650, 4673, 14928, 63337, 42283, 17095, 47341, 4234, 22968, 19261>>
      [] message = "'123'1" -> <<45992, 48405, 47494, 50672, 28094, 11241, 33841, 41991, 28375, 49253, 38126, 31249, 25834, 12165, 36573, 46831>>
      [] message = "'123'2" -> <<65183, 32167, 42579, 8489, 46824, 22938, 2439, 51564, 61459, 6251, 39207, 29642, 64859, 57953, 55922, 25441>>
      [] message = "'123'3" -> <<2671, 11243, 16735, 49111, 44853, 46215, 17514, 22348, 62574, 49935, 53771, 22816, 14271, 15379, 49257, 38371>>
      [] message = "'123'4" -> <<61305, 62131, 8593, 46255, 55489, 50513, 16989, 20704, 64409, 39982, 45859, 64526, 15029, 19270, 26219, 3417>>
      [] message = "'123'5" -> <<10433, 45305, 37414, 5537, 38668, 51207, 42504, 52830, 17913, 19826, 46495, 8800, 7754, 6357, 39102, 39352>>
      [] message = "'123'6" -> <<60812, 45614, 52684, 17811, 13631, 46172, 395, 4424, 9031, 7143, 6422, 50660, 10529, 17332, 14129, 61095>>
      [] message = "'123'7" -> <<2804, 33413, 24505, 62053, 33198, 19801, 56073, 2062, 10693, 31287, 33815, 50680, 55446, 26573, 10153, 49936>>
      [] message = "'123'8" -> <<36390, 55661, 18936, 53557, 47633, 55703, 3130, 50645, 47861, 20712, 41508, 32918, 35471, 24847, 18713, 2891>>
      [] message = "'123'9" -> <<33857, 31512, 17205, 1836, 47384, 27050, 60301, 34354, 64140, 45877, 538, 44018, 36965, 43522, 45206, 40296>>
      [] message = "'123'10" -> <<48533, 50430, 30056, 22889, 30765, 44109, 14148, 51846, 64338, 24926, 61225, 37215, 23620, 23801, 43081, 59499>>
      [] message = "'123'11" -> <<2268, 38130, 9380, 40930, 48046, 34701, 17971, 37087, 62328, 36844, 16942, 43858, 8620, 61372, 36116, 16303>>
      [] message = "'123'12" -> <<19558, 8084, 60375, 42151, 22898, 35253, 28895, 3475, 9513, 29038, 15472, 35403, 23297, 20660, 16287, 58602>>
      [] message = "'123'13" -> <<56282, 28225, 35629, 15170, 37746, 20480, 62125, 49107, 47537, 15024, 17562, 15760, 5539, 15091, 13105, 55201>>

\* int(hexdigest, 16) % m for m > 0, limb by limb from the most significant.
RECURSIVE IntMod(_, _, _, _)
IntMod(limbs, i, acc, m) ==
    IF i > Len(limbs) THEN acc
    ELSE IntMod(limbs, i + 1, (acc * 65536 + limbs[i]) % m, m)

\* _hash raises ZeroDivisionError at "% self.size" when self.size is 0.
HashRaises == size = 0

\* _hash(item, seed), for self.size > 0.
_hash(item, seed) == IntMod(sha256(Message(item, seed)), 1, 0, size)

(* ---------------- Bit store ---------------- *)

\* Mutant of AllFalse: [True] * n.
AllTrue(n) == [i \in 1 .. n |-> TRUE]

\* [False] * n
AllFalse(n) == [i \in 1 .. n |-> FALSE]

\* Mutant of add_loop: the loop runs over range(hash_count - 1) and misses the last seed.
RECURSIVE add_loop_short(_, _, _)
add_loop_short(bits, item, i) ==
    IF i >= hash_count - 1 THEN bits
    ELSE add_loop_short([bits EXCEPT ![_hash(item, i) + 1] = TRUE], item, i + 1)

\* Mutant of add_loop: the probed bit is flipped instead of set.
RECURSIVE add_loop_flip(_, _, _)
add_loop_flip(bits, item, i) ==
    IF i >= hash_count THEN bits
    ELSE add_loop_flip([bits EXCEPT ![_hash(item, i) + 1] = ~@], item, i + 1)

\* Mutant of add_loop: the seeds run over 1 .. hash_count instead of 0 .. hash_count - 1.
RECURSIVE add_loop_seeds_from_one(_, _, _)
add_loop_seeds_from_one(bits, item, i) ==
    IF i >= hash_count THEN bits
    ELSE add_loop_seeds_from_one([bits EXCEPT ![_hash(item, i + 1) + 1] = TRUE], item, i + 1)

\* Mutant of add_loop: the bit array is reallocated before the item's bits are set.
RECURSIVE add_loop_overwrite(_, _, _)
add_loop_overwrite(bits, item, i) ==
    IF i >= hash_count THEN bits
    ELSE add_loop_overwrite([(IF i = 0 THEN [j \in DOMAIN bits |-> FALSE] ELSE bits)
                                EXCEPT ![_hash(item, i) + 1] = TRUE], item, i + 1)

\* add's loop from seed i on: self.bit_array[self._hash(item, i)] = True.
RECURSIVE add_loop(_, _, _)
add_loop(bits, item, i) ==
    IF i >= hash_count THEN bits
    ELSE add_loop([bits EXCEPT ![_hash(item, i) + 1] = TRUE], item, i + 1)

\* Mutant of contains_loop: True is returned at the first probe whose bit is set.
RECURSIVE contains_loop_any(_, _)
contains_loop_any(item, i) ==
    IF i >= hash_count THEN "False"
    ELSE IF HashRaises THEN "ZeroDivisionError"
    ELSE IF bit_array[_hash(item, i) + 1] THEN "True"
    ELSE contains_loop_any(item, i + 1)

\* contains' loop from seed i on: "True", "False", or the error _hash raises.
RECURSIVE contains_loop(_, _)
contains_loop(item, i) ==
    IF i >= hash_count THEN "True"
    ELSE IF HashRaises THEN "ZeroDivisionError"
    ELSE IF ~bit_array[_hash(item, i) + 1] THEN "False"
    ELSE contains_loop(item, i + 1)

\* contains(item) in the current state.
contains(item) == contains_loop(item, 0)

\* Mutant of __contains__: the operator form answers from the first probe alone.
__contains__first_probe(item) ==
    IF HashRaises THEN "ZeroDivisionError"
    ELSE IF bit_array[_hash(item, 0) + 1] THEN "True" ELSE "False"

\* __contains__: return self.contains(item)
__contains__(item) == contains(item)

\* Mutant of sum: len(self.bit_array) in place of the number of true entries.
sum_len(bits) == Len(bits)

\* sum(self.bit_array)
sum(bits) == Cardinality({i \in DOMAIN bits : bits[i]})

\* The dictionary get_stats returns.  load_factor is the quotient num / den;
\* estimated_false_positive_rate is 0 or stands for (1 - exp(-k * n / m)) ** k.
stats_of(m, k, count, bits) ==
    [size |-> m,
     hash_count |-> k,
     element_count |-> count,
     bits_set |-> sum(bits),
     load_factor |-> IF m > 0 THEN [num |-> sum(bits), den |-> m] ELSE [num |-> 0, den |-> 1],
     estimated_false_positive_rate |->
        IF m > 0 /\ count > 0 THEN [zero |-> FALSE, k |-> k, n |-> count, m |-> m]
        ELSE [zero |-> TRUE, k |-> 0, n |-> 0, m |-> 0]]

get_stats_dict == stats_of(size, hash_count, element_count, bit_array)

Outcome(op, item, result, stats, prev) ==
    [op |-> op, item |-> item, result |-> result, stats |-> stats, prev |-> prev]

(* ---------------- Operations ---------------- *)

Init ==
    /\ phase = "new"
    /\ assigned = {}
    /\ size = 0
    /\ hash_count = 0
    /\ bit_array = <<>>
    /\ element_count = 0
    /\ args = [n |-> 0, p |-> 0]
    /\ added = {}
    /\ adds = 0
    /\ outcome = Outcome("none", NoItem, "None", <<>>, {})

\* Mutant of Invalid: the rate check reads 0 < p <= 1.
Invalid_closed(n, p) == n <= 0 \/ ~(0 < p /\ p <= 10000)

\* The two checks at the head of __init__.
Invalid(n, p) == n <= 0 \/ ~(0 < p /\ p < 10000)

\* Mutant of __init__: element_count is assigned before the arguments are checked.
__init__counts_first(n, p) ==
    /\ phase = "new"
    /\ args' = [n |-> n, p |-> p]
    /\ UNCHANGED <<added, adds>>
    /\ element_count' = 0
    /\ IF n <= 0 \/ ~(0 < p /\ p < 10000)
       THEN /\ phase' = "error"
            /\ outcome' = Outcome("__init__", NoItem, "ValueError", <<>>, {})
            /\ assigned' = {"element_count"}
            /\ UNCHANGED <<size, hash_count, bit_array>>
       ELSE /\ phase' = "ok"
            /\ size' = _calculate_size(n, p)
            /\ hash_count' = _calculate_hash_count(size', n)
            /\ bit_array' = AllFalse(size')
            /\ assigned' = {"size", "hash_count", "bit_array", "element_count"}
            /\ outcome' = Outcome("__init__", NoItem, "None", <<>>, {})

\* BloomFilter(expected_elements = n, false_positive_rate = p)
__init__(n, p) ==
    /\ phase = "new"
    /\ args' = [n |-> n, p |-> p]
    /\ UNCHANGED <<added, adds>>
    /\ IF Invalid(n, p)
       THEN /\ phase' = "error"
            /\ outcome' = Outcome("__init__", NoItem, "ValueError", <<>>, {})
            /\ UNCHANGED <<assigned, fields>>
       ELSE /\ phase' = "ok"
            /\ size' = _calculate_size(n, p)
            /\ hash_count' = _calculate_hash_count(size', n)
            /\ bit_array' = AllFalse(size')
            /\ element_count' = 0
            /\ assigned' = {"size", "hash_count", "bit_array", "element_count"}
            /\ outcome' = Outcome("__init__", NoItem, "None", <<>>, {})

\* Mutant of add: element_count grows only when the call set a new bit.
add_counts_new_bits(item) ==
    /\ phase = "ok"
    /\ element_count < MaxAdds
    /\ UNCHANGED <<phase, assigned, size, hash_count, args>>
    /\ IF hash_count > 0 /\ size = 0
       THEN /\ outcome' = Outcome("add", item, "ZeroDivisionError", <<>>, {})
            /\ UNCHANGED <<bit_array, element_count, added, adds>>
       ELSE /\ bit_array' = add_loop(bit_array, item, 0)
            /\ element_count' = IF bit_array' = bit_array THEN element_count ELSE element_count + 1
            /\ added' = added \cup {item}
            /\ adds' = adds + 1
            /\ outcome' = Outcome("add", item, "None", <<>>, {})

\* self.add(item)
add(item) ==
    /\ phase = "ok"
    /\ element_count < MaxAdds
    /\ UNCHANGED <<phase, assigned, size, hash_count, args>>
    /\ IF hash_count > 0 /\ HashRaises
       THEN /\ outcome' = Outcome("add", item, "ZeroDivisionError", <<>>, {})
            /\ UNCHANGED <<bit_array, element_count, added, adds>>
       ELSE /\ bit_array' = add_loop(bit_array, item, 0)
            /\ element_count' = element_count + 1
            /\ added' = added \cup {item}
            /\ adds' = adds + 1
            /\ outcome' = Outcome("add", item, "None", <<>>, {})

\* Mutant of Contains: the query is counted in element_count.
Contains_counts(item) ==
    /\ phase = "ok"
    /\ outcome' = Outcome("contains", item, contains(item), <<>>, {})
    /\ element_count' = element_count + 1
    /\ UNCHANGED <<phase, assigned, size, hash_count, bit_array, args, added, adds>>

\* self.contains(item)
Contains(item) ==
    /\ phase = "ok"
    /\ outcome' = Outcome("contains", item, contains(item), <<>>, {})
    /\ UNCHANGED <<phase, assigned, fields, args, added, adds>>

\* item in self
In(item) ==
    /\ phase = "ok"
    /\ outcome' = Outcome("in", item, __contains__(item), <<>>, {})
    /\ UNCHANGED <<phase, assigned, fields, args, added, adds>>

\* self.get_stats()
get_stats ==
    /\ phase = "ok"
    /\ outcome' = Outcome("get_stats", NoItem, "dict", <<get_stats_dict>>, {})
    /\ UNCHANGED <<phase, assigned, fields, args, added, adds>>

\* Mutant of clear: element_count is reset and the bits are left as they are.
clear_keeps_bits ==
    /\ phase = "ok"
    /\ element_count' = 0
    /\ added' = {}
    /\ adds' = 0
    /\ outcome' = Outcome("clear", NoItem, "None", <<>>, added)
    /\ UNCHANGED <<phase, assigned, size, hash_count, bit_array, args>>

\* Mutant of clear: the new bit array is [False] * self.hash_count.
clear_wrong_length ==
    /\ phase = "ok"
    /\ bit_array' = AllFalse(hash_count)
    /\ element_count' = 0
    /\ added' = {}
    /\ adds' = 0
    /\ outcome' = Outcome("clear", NoItem, "None", <<>>, added)
    /\ UNCHANGED <<phase, assigned, size, hash_count, args>>

\* Mutant of clear: the bits are reset and element_count is left as it is.
clear_keeps_count ==
    /\ phase = "ok"
    /\ bit_array' = AllFalse(size)
    /\ added' = {}
    /\ adds' = 0
    /\ outcome' = Outcome("clear", NoItem, "None", <<>>, added)
    /\ UNCHANGED <<phase, assigned, size, hash_count, element_count, args>>

\* self.clear()
clear ==
    /\ phase = "ok"
    /\ bit_array' = AllFalse(size)
    /\ element_count' = 0
    /\ added' = {}
    /\ adds' = 0
    /\ outcome' = Outcome("clear", NoItem, "None", <<>>, added)
    /\ UNCHANGED <<phase, assigned, size, hash_count, args>>

Next ==
    \/ \E n \in ExpectedValues, p \in RateValues : __init__(n, p)
    \/ \E item \in Items : add(item)
    \/ \E item \in Items : Contains(item)
    \/ \E item \in Items : In(item)
    \/ get_stats
    \/ clear

Spec == Init /\ [][Next]_vars

(* ---------------- Properties ---------------- *)

Errors == {"ValueError", "ZeroDivisionError"}

\* The number of true entries of the bit array, counted entry by entry.
TrueBits == Cardinality({i \in 1 .. Len(bit_array) : bit_array[i]})

\* C1: no false negatives.  In every reachable state, contains(x) returns True for
\* every item x whose add has returned since construction or the last clear,
\* whatever was added before or after it and however often.
NoFalseNegatives == \A x \in added : contains(x) = "True"

\* C1 witness: contains has just returned True for an added item, with two
\* distinct items added and at least one duplicate add.
NoFalseNegativesWitness ==
    /\ outcome.op = "contains"
    /\ outcome.item \in added
    /\ outcome.result = "True"
    /\ Cardinality(added) >= 2
    /\ adds > Cardinality(added)

\* C2: counter semantics.  In every reachable state of a constructed filter,
\* element_count is the number of add calls that returned since construction or
\* the last clear, duplicates and adds that set no new bit included, and it is 0
\* right after clear.
CounterSemantics ==
    phase = "ok" =>
        /\ element_count = adds
        /\ (outcome.op = "clear" => element_count = 0)

\* C2 witness: the same item was added at least twice, the last add setting no
\* new bit, and nothing else was added.
CounterSemanticsWitness ==
    /\ outcome.op = "add"
    /\ outcome.result = "None"
    /\ Cardinality(added) = 1
    /\ element_count >= 2

\* One step keeps every true bit, unless it is a clear; a clear leaves no true bit.
MonotonicStep ==
    /\ (\E i \in DOMAIN bit_array : bit_array[i] /\ ~bit_array'[i]) => outcome'.op = "clear"
    /\ outcome'.op \in {"add", "contains", "in", "get_stats"} =>
           /\ Len(bit_array') = Len(bit_array)
           /\ \A i \in DOMAIN bit_array : bit_array[i] => bit_array'[i]
    /\ outcome'.op = "clear" => \A i \in DOMAIN bit_array' : ~bit_array'[i]

\* C3: monotonic bits.  Across every add, contains and get_stats step each bit
\* that was true stays true; only clear turns a true bit false, and it turns all
\* of them false.
MonotonicBits == [][MonotonicStep]_vars

\* C3 witness: an add has returned on a filter that already held the bits of
\* another item.
MonotonicBitsWitness ==
    /\ outcome.op = "add"
    /\ outcome.result = "None"
    /\ Cardinality(added) >= 2
    /\ TrueBits >= 2

\* C4: clear round trip.  Right after clear, size and hash_count are the ones
\* construction derived from its arguments, the bit array is all false,
\* element_count is 0, get_stats is the one of the fresh filter, and contains
\* returns False for every item that had been added.
ClearRoundTrip ==
    (phase = "ok" /\ outcome.op = "clear") =>
        LET m == _calculate_size(args.n, args.p)
            k == _calculate_hash_count(m, args.n)
        IN  /\ size = m
            /\ hash_count = k
            /\ bit_array = AllFalse(m)
            /\ element_count = 0
            /\ get_stats_dict = stats_of(m, k, 0, AllFalse(m))
            /\ get_stats_dict.bits_set = 0
            /\ get_stats_dict.estimated_false_positive_rate.zero
            /\ \A x \in outcome.prev : contains(x) = "False"

\* C4 witness: clear has returned on a filter that held two distinct items.
ClearRoundTripWitness ==
    /\ outcome.op = "clear"
    /\ Cardinality(outcome.prev) >= 2

\* C5: empty-filter behaviour, as claimed.  On a filter with no add since
\* construction or the last clear, contains returns False for every item and
\* get_stats reports bits_set = 0, element_count = 0 and load_factor = 0.
EmptyFilterBehaviour ==
    (phase = "ok" /\ adds = 0) =>
        /\ \A x \in Items : contains(x) = "False"
        /\ get_stats_dict.bits_set = 0
        /\ get_stats_dict.element_count = 0
        /\ get_stats_dict.load_factor.num = 0

\* What C6 calls invalid arguments: expected_elements <= 0, or a rate <= 0 or >= 1.
ClaimedInvalid == args.n <= 0 \/ args.p <= 0 \/ args.p >= 10000

\* C6: parameter validation.  A construction with expected_elements <= 0, or with
\* false_positive_rate <= 0 or >= 1, has ended in ValueError with none of size,
\* hash_count, bit_array and element_count assigned.
ParameterValidation ==
    (phase # "new" /\ ClaimedInvalid) =>
        /\ phase = "error"
        /\ outcome.op = "__init__"
        /\ outcome.result = "ValueError"
        /\ assigned = {}

\* C6 witness: the constructor was called with a valid capacity and the rate 1.5
\* and raised.
ParameterValidationWitness ==
    /\ phase = "error"
    /\ args.n > 0
    /\ args.p = 15000

\* C7: the structural invariant, as claimed.  Every filter construction accepted
\* has size >= 1 and hash_count >= 1, in every state.
StructuralInvariant == phase = "ok" => (size >= 1 /\ hash_count >= 1)

\* C8: construction is the single fallible entry point, as claimed.  No add,
\* contains, membership test, get_stats or clear on a constructed filter ends in
\* an error.
OperationsNeverFail ==
    (phase = "ok" /\ outcome.op \in {"add", "contains", "in", "get_stats", "clear"}) =>
        outcome.result \notin Errors

\* The constructor's arguments read as an explicit (size, hash_count) pair: the
\* second one is a whole number.
DirectPair == args.p % 10000 = 0
DirectSize == args.n
DirectHashCount == args.p \div 10000

GetStatsReflectsState ==
    (phase = "ok" /\ outcome.op = "get_stats") =>
        LET s == outcome.stats[1]
        IN  /\ s.size = size
            /\ s.hash_count = hash_count
            /\ s.element_count = element_count
            /\ s.bits_set = TrueBits
            /\ 0 <= s.bits_set /\ s.bits_set <= size
            /\ s.load_factor.den > 0
            /\ s.load_factor.num * size = s.bits_set * s.load_factor.den
            /\ (s.load_factor.num = 0 <=> s.bits_set = 0)

\* C10 witness: get_stats has returned on a filter with some bits set and some not.
GetStatsReflectsStateWitness ==
    /\ outcome.op = "get_stats"
    /\ outcome.stats[1].bits_set >= 2
    /\ outcome.stats[1].bits_set < size
    /\ outcome.stats[1].element_count >= 2

\* One step of the operator form: it ends as contains(item) ends in the state it
\* was called in, and it changes no attribute of the filter.
MembershipStep ==
    outcome'.op = "in" =>
        /\ outcome'.result = contains(outcome'.item)
        /\ fields' = fields
        /\ assigned' = assigned

\* C11: the membership operator.  "item in filter" returns what contains(item)
\* returns, for every item in every reachable state, and changes no state.
MembershipOperator == [][MembershipStep]_vars

\* C11 witness: the operator form has answered False for an item on a filter
\* that holds another item and has that item's first probe bit set.
MembershipOperatorWitness ==
    /\ outcome.op = "in"
    /\ outcome.result = "False"
    /\ added # {}
    /\ bit_array[_hash(outcome.item, 0) + 1]

\* The positions (from 1) of the bits item's probes address, for size > 0.
ProbePositions(item) == {_hash(item, seed) + 1 : seed \in 0 .. hash_count - 1}

\* The union of the probe positions of the items added since construction or
\* the last clear.
ReferenceSet == UNION {ProbePositions(x) : x \in added}

\* C12: reference-set refinement.  In every reachable state the true bit
\* positions are exactly the probe positions of the items added since
\* construction or the last clear, and contains(y) returns True exactly when
\* every probe position of y lies in that union.
ReferenceSetRefinement ==
    phase = "ok" =>
        /\ {i \in DOMAIN bit_array : bit_array[i]} = ReferenceSet
        /\ \A y \in Items :
               contains(y) = "True" <=> (~HashRaises /\ ProbePositions(y) \subseteq ReferenceSet)

\* C12 witness: a false positive.  contains has returned True for an item that
\* was not added, its probes being covered by the probes of the added items.
ReferenceSetRefinementWitness ==
    /\ outcome.op = "contains"
    /\ outcome.result = "True"
    /\ outcome.item \notin added
    /\ added # {}

\* One add step that returns: the bits at the item's probe positions are true
\* afterwards, every other bit is as before, element_count has grown by one, and
\* size and hash_count are as before.
AddStep ==
    (outcome'.op = "add" /\ outcome'.result = "None") =>
        /\ bit_array' = [i \in 1 .. size |-> bit_array[i] \/ i \in ProbePositions(outcome'.item)]
        /\ element_count' = element_count + 1
        /\ size' = size
        /\ hash_count' = hash_count

\* C13: effect and frame of add.  add(item) sets exactly the bits at
\* _hash(item, seed) for seed in 0 .. hash_count - 1, leaves every other bit as
\* it was, adds exactly 1 to element_count even when every targeted bit was
\* already true, and leaves size and hash_count unchanged.
AddEffectAndFrame == [][AddStep]_vars

\* C13 witness: the only item of the filter has been added again, so that every
\* bit the add targeted was already true, and element_count counts both adds.
AddEffectAndFrameWitness ==
    /\ outcome.op = "add"
    /\ outcome.result = "None"
    /\ added = {outcome.item}
    /\ element_count = 2
    /\ {i \in DOMAIN bit_array : bit_array[i]} = ProbePositions(outcome.item)
    /\ TrueBits < size

\* Every one of item's hash_count probes addresses a true bit, all probes checked.
AllProbesTrue(item) ==
    ~HashRaises /\ \A seed \in 0 .. hash_count - 1 : bit_array[_hash(item, seed) + 1]

\* Some probe of item addresses a false bit.
SomeProbeFalse(item) ==
    ~HashRaises /\ \E seed \in 0 .. hash_count - 1 : ~bit_array[_hash(item, seed) + 1]

\* C14: result of contains.  contains(item) returns True if and only if the bit
\* at _hash(item, seed) is true for every seed in 0 .. hash_count - 1, and False if
\* and only if one of them is false: returning at the first false bit gives the
\* result of checking all the probes.  A contains call that has just returned
\* gave that result.
ContainsResult ==
    phase = "ok" =>
        /\ \A x \in Items :
               /\ contains(x) = "True" <=> AllProbesTrue(x)
               /\ contains(x) = "False" <=> SomeProbeFalse(x)
        /\ outcome.op = "contains" =>
               /\ outcome.result = "True" <=> AllProbesTrue(outcome.item)
               /\ outcome.result = "False" <=> SomeProbeFalse(outcome.item)

\* C14 witness: contains has returned False at a later probe, the bit of the
\* item's first probe being true.
ContainsResultWitness ==
    /\ outcome.op = "contains"
    /\ outcome.result = "False"
    /\ hash_count >= 2
    /\ bit_array[_hash(outcome.item, 0) + 1]

\* C15: probe indices are in range, as claimed.  On every constructed filter
\* _hash(item, seed) returns, for every item and every seed in
\* 0 .. hash_count - 1, a value with 0 <= index < size, an index of the bit array.
ProbeIndicesInRange ==
    phase = "ok" =>
        \A item \in Items : \A seed \in 0 .. hash_count - 1 :
            /\ ~HashRaises
            /\ 0 <= _hash(item, seed)
            /\ _hash(item, seed) < size
            /\ _hash(item, seed) + 1 \in DOMAIN bit_array

\* One step on a constructed filter keeps size and hash_count, and every step
\* that ends with a constructed filter leaves a bit array of size entries.
FixedShapeStep ==
    /\ phase = "ok" => (size' = size /\ hash_count' = hash_count)
    /\ phase' = "ok" => Len(bit_array') = size'

\* C16: fixed shape.  size and hash_count keep the values construction set
\* through every add, contains, clear and get_stats call, and the bit array has
\* size entries in every reachable state, after clear too.
FixedShape == [][FixedShapeStep]_vars

\* C16 witness: clear has returned on a filter that held items and whose size
\* differs from its hash_count.
FixedShapeWitness ==
    /\ outcome.op = "clear"
    /\ outcome.prev # {}
    /\ size > hash_count
    /\ hash_count >= 2

\* One query step: contains and get_stats change no attribute of the filter, and
\* a query repeated right after itself gives the answer it gave before.
QueryStep ==
    /\ outcome'.op \in {"contains", "get_stats"} =>
           /\ bit_array' = bit_array
           /\ element_count' = element_count
           /\ size' = size
           /\ hash_count' = hash_count
    /\ (outcome.op = "contains" /\ outcome'.op = "contains" /\ outcome'.item = outcome.item) =>
           outcome'.result = outcome.result
    /\ (outcome.op = "get_stats" /\ outcome'.op = "get_stats") => outcome'.stats = outcome.stats

\* C17: queries are pure.  contains, returning early or not, and get_stats leave
\* the bit array, element_count, size and hash_count unchanged, so a query
\* repeated with no add or clear in between returns the same answer.
QueriesArePure == [][QueryStep]_vars

\* C17 witness: contains has returned False at its first probe on a filter that
\* holds items and probes more than once.
QueriesArePureWitness ==
    /\ outcome.op = "contains"
    /\ outcome.result = "False"
    /\ added # {}
    /\ hash_count >= 2
    /\ ~bit_array[_hash(outcome.item, 0) + 1]

\* C18: bits versus count.  In every reachable state element_count = 0 implies
\* bits_set = 0, and element_count >= 1 implies
\* 1 <= bits_set <= min(size, hash_count * element_count); one add on an empty
\* filter leaves between 1 and hash_count bits set.
BitsVersusCount ==
    phase = "ok" =>
        LET bits_set == get_stats_dict.bits_set
        IN  /\ element_count = 0 => bits_set = 0
            /\ element_count >= 1 =>
                   /\ 1 <= bits_set
                   /\ bits_set <= size
                   /\ bits_set <= hash_count * element_count

\* C18 witness: one add on an empty filter, two of whose probes fell on the same
\* bit: fewer than hash_count bits are set.
BitsVersusCountWitness ==
    /\ element_count = 1
    /\ get_stats_dict.bits_set >= 1
    /\ get_stats_dict.bits_set < hash_count
    /\ hash_count < size

\* The bit array and the counter an add of item that returns leaves, from the
\* given bit array and counter.
AfterAdd(s, item) ==
    [bit_array |-> add_loop(s.bit_array, item, 0), element_count |-> s.element_count + 1]

Current == [bit_array |-> bit_array, element_count |-> element_count]

\* From the current state, add(x) then add(y) leaves what add(y) then add(x) leaves.
OrderIndependentHere ==
    (phase = "ok" /\ ~HashRaises) =>
        \A x \in Items : \A y \in Items :
            AfterAdd(AfterAdd(Current, x), y) = AfterAdd(AfterAdd(Current, y), x)

\* An add step that returns leaves AfterAdd of the state it started in.
AddLeavesAfterAdd ==
    (outcome'.op = "add" /\ outcome'.result = "None") =>
        [bit_array |-> bit_array', element_count |-> element_count'] = AfterAdd(Current, outcome'.item)

\* C19: order independence of add.  For any items x and y and any reachable
\* state, add(x) then add(y) and add(y) then add(x) give the same bit array and
\* the same element_count, hence the same answers to every later contains.
OrderIndependence == []OrderIndependentHere /\ [][AddLeavesAfterAdd]_vars

\* C19 witness: two distinct items with different probe positions have been
\* added, one after the other, to an empty filter.
OrderIndependenceWitness ==
    /\ outcome.op = "add"
    /\ Cardinality(added) = 2
    /\ adds = 2
    /\ \E x \in added : \E y \in added :
           /\ ~(ProbePositions(x) \subseteq ProbePositions(y))
           /\ ~(ProbePositions(y) \subseteq ProbePositions(x))

\* C20: the hash message is unambiguous, as claimed.  On a constructed filter
\* the messages repr(item) + str(seed) of two different (item, seed) pairs, seeds
\* in 0 .. hash_count - 1, are different.
MessageUnambiguous ==
    phase = "ok" =>
        \A x \in Items : \A y \in Items :
            \A s \in 0 .. hash_count - 1 : \A t \in 0 .. hash_count - 1 :
                (x # y \/ s # t) => Message(x, s) # Message(y, t)

====
